---- MODULE Spec2Model ----
(***************************************************************************)
(* Model of Xycar::LaneKeepingSystem<PREC>                                 *)
(* (src/src/LaneKeepingSystem/LaneKeepingSystem.cpp): the constructor and  *)
(* setParams, the run() loop, imageCallback, speedControl and drive.       *)
(*                                                                         *)
(* Numbers of type PREC (speeds, steps, the threshold, steering angles)    *)
(* are modelled as integers counting HALVES: the model value 9 stands for  *)
(* 4.5.  std::round and static_cast<int32_t> are modelled on that scale.   *)
(* int32_t quantities (lane positions, samples, the error, the message     *)
(* fields) are plain integers.                                             *)
(***************************************************************************)
EXTENDS Integers, Sequences, FiniteSets, TLC

VARIABLES
    config,                      \* the YAML document found at config_path
    pc,                          \* position of the main thread
    rosOk,                       \* what ros::ok() returns
    inbox,                       \* images waiting in the subscriber's callback queue
    todo,                        \* callbacks the running ros::spinOnce() has still to call
    src,                         \* the image imageCallback is converting (EmptyMat: none)
    mFrame,                      \* cv::Mat mFrame
    mSamples,                    \* the samples held by mMovingAverage
    stanleyInput,                \* arguments of the last calculateSteeringAngle call
    stanleyResult,               \* what mStanley->getResult() returns
    mXycarSpeed,
    mXycarMaxSpeed,
    mXycarMinSpeed,
    mXycarSpeedControlThreshold,
    mAccelerationStep,
    mDecelerationStep,
    mQueueSize,
    mSampleSize,
    mDebugging,
    loc,                         \* the locals of one iteration of run()
    motorMessage,                \* the last message handed to mPublisher.publish
    debugFrame,                  \* what the debug window shows
    history,                     \* every sample ever passed to addSample, in order
    cycles,                      \* iterations of the while loop started
    activeCycles,                \* iterations that passed the mFrame.empty() test
    nDetect,                     \* calls of getLanePosition
    nSteer,                      \* calls of calculateSteeringAngle
    nSpeedUpdates,               \* calls of speedControl
    nPublished,                  \* calls of mPublisher.publish
    nStored,                     \* completed imageCallback calls
    nDelivered,                  \* images the transport has handed over
    rateSleeps,                  \* calls of rate.sleep()
    lastImage,                   \* the last message handed to imageCallback
    twin                         \* the control state of the run that differs only in DEBUG

vars == << config, pc, rosOk, inbox, todo, src, mFrame, mSamples, stanleyInput,
           stanleyResult, mXycarSpeed, mXycarMaxSpeed, mXycarMinSpeed,
           mXycarSpeedControlThreshold, mAccelerationStep, mDecelerationStep,
           mQueueSize, mSampleSize, mDebugging, loc, motorMessage, debugFrame,
           history, cycles, activeCycles, nDetect, nSteer, nSpeedUpdates,
           nPublished, nStored, nDelivered, rateSleeps, lastImage, twin >>

members == << mXycarSpeed, mXycarMaxSpeed, mXycarMinSpeed,
              mXycarSpeedControlThreshold, mAccelerationStep, mDecelerationStep,
              mQueueSize, mSampleSize, mDebugging >>

counters == << cycles, activeCycles, nDetect, nSteer, nSpeedUpdates, nPublished,
               nStored, nDelivered, rateSleeps >>

----------------------------------------------------------------------------
(* Bounds of the model *)

MaxCycles == 3
MaxDelivered == 2
MaxBadFields == 1

----------------------------------------------------------------------------
(* Arithmetic helpers *)

Abs(x) == IF x < 0 THEN -x ELSE x

Min(a, b) == IF b < a THEN b ELSE a

Max(a, b) == IF a < b THEN b ELSE a

\* C++ integer division and static_cast<int32_t> of a quotient: toward zero.
TruncDiv(n, d) == IF n >= 0 THEN n \div d ELSE -((-n) \div d)

\* std::round of a PREC given in halves: nearest integer, halves away from zero.
Round(h) == IF h >= 0 THEN (h + 1) \div 2 ELSE -((1 - h) \div 2)

RECURSIVE SumSeq(_)
SumSeq(s) == IF s = << >> THEN 0 ELSE Head(s) + SumSeq(Tail(s))

\* The last n elements of s (all of s when it is shorter).
LastN(s, n) == IF Len(s) <= n THEN s ELSE SubSeq(s, Len(s) - n + 1, Len(s))

----------------------------------------------------------------------------
(* The configuration document *)

\* The fields the constructor and setParams read, in the order they are read.
FieldsRead ==
    { "config_path",
      "SPEED_PID.P_GAIN", "SPEED_PID.I_GAIN", "SPEED_PID.D_GAIN",
      "PID.P_GAIN", "PID.I_GAIN", "PID.D_GAIN",
      "MOVING_AVERAGE_FILTER.SAMPLE_SIZE",
      "TOPIC.PUB_NAME", "TOPIC.SUB_NAME", "TOPIC.QUEUE_SIZE",
      "XYCAR.START_SPEED", "XYCAR.MAX_SPEED", "XYCAR.MIN_SPEED",
      "XYCAR.SPEED_CONTROL_THRESHOLD",
      "XYCAR.ACCELERATION_STEP", "XYCAR.DECELERATION_STEP",
      "STANLEY.K_GAIN", "STANLEY.LOOK_AHREAD_DISTANCE",
      "DEBUG" }

\* Mutant of Throws: a field of the wrong type converts to some value.
ThrowsOnlyIfMissing(status) == status = "missing"

\* YAML::LoadFile and Node::as<T>() throw on a file or field that is absent or
\* does not convert to T; the exception leaves the constructor.
Throws(status) == status # "ok"

RECURSIVE SmallSubsets(_, _)
SmallSubsets(S, k) ==
    IF k = 0 THEN { {} }
    ELSE LET P == SmallSubsets(S, k - 1)
         IN  P \cup { A \cup {x} : A \in P, x \in S }

\* Documents with every field well formed but for at most MaxBadFields of them.
Statuses ==
    UNION { { [f \in FieldsRead |-> IF f \in B THEN k[f] ELSE "ok"] :
                k \in [B -> {"missing", "malformed"}] } :
            B \in SmallSubsets(FieldsRead, MaxBadFields) }

\* Values of the numeric and boolean fields (PREC values in halves).
SpeedValues ==
    [ START_SPEED : {6, 13}, MAX_SPEED : {10}, MIN_SPEED : {4},
      SPEED_CONTROL_THRESHOLD : {10},
      ACCELERATION_STEP : {1, 3}, DECELERATION_STEP : {2, 5} ]

DefaultSpeeds ==
    [ START_SPEED |-> 6, MAX_SPEED |-> 10, MIN_SPEED |-> 4,
      SPEED_CONTROL_THRESHOLD |-> 10,
      ACCELERATION_STEP |-> 1, DECELERATION_STEP |-> 2 ]

OtherValues == [ QUEUE_SIZE : {1, 2}, SAMPLE_SIZE : {1, 2}, DEBUG : BOOLEAN ]

DefaultOthers == [ QUEUE_SIZE |-> 1, SAMPLE_SIZE |-> 2, DEBUG |-> FALSE ]

AllOk == [f \in FieldsRead |-> "ok"]

Configs ==
    { [status |-> AllOk, speed |-> s, other |-> DefaultOthers] : s \in SpeedValues }
    \cup
    { [status |-> AllOk, speed |-> DefaultSpeeds, other |-> o] : o \in OtherValues }
    \cup
    { [status |-> st, speed |-> DefaultSpeeds, other |-> DefaultOthers] :
        st \in Statuses }

----------------------------------------------------------------------------
(* Images *)

\* A cv::Mat, reduced to its width, its channel order and the lane marks the
\* detector finds in it.
EmptyMat == [cols |-> 0, order |-> "none", left |-> 0, right |-> 0]

\* The sensor_msgs::Image messages of the camera (RGB, of positive size).
Images ==
    { [cols |-> 640, order |-> "RGB", left |-> 200, right |-> 440],
      [cols |-> 640, order |-> "RGB", left |-> 203, right |-> 440],
      [cols |-> 641, order |-> "RGB", left |-> -9,  right |-> 2] }

\* Mutant of Empty: the emptiness test of line 74 never succeeds.
EmptyNever(mat) == FALSE

\* cv::Mat::empty()
Empty(mat) == mat.cols = 0

\* cv::cvtColor(src, dst, COLOR_RGB2BGR): dst gets the size of src and its pixels
\* with the first and third channel exchanged.
cvtColor(image) ==
    [image EXCEPT !.order = IF image.order = "RGB" THEN "BGR"
                            ELSE IF image.order = "BGR" THEN "RGB" ELSE @]

\* mFrame while cvtColor is writing it: the new size, the rows partly old.
Torn(old, new) ==
    [cols |-> new.cols, order |-> "BGR", left |-> new.left, right |-> old.right]

----------------------------------------------------------------------------
(* The collaborators of the loop *)

\* HoughTransformLaneDetector::getLanePosition: the pair (left, right).
getLanePosition(frame) == << frame.left, frame.right >>

\* Mutant of addSample: a full buffer drops the sample just added.
addSampleEvictNewest(samples, x, sampleSize) ==
    IF Len(samples) >= sampleSize THEN samples ELSE Append(samples, x)

\* MovingAverageFilter::addSample: append, evicting the oldest sample of a
\* full buffer.
addSample(samples, x, sampleSize) ==
    LET pushed == Append(samples, x)
    IN  IF Len(pushed) > sampleSize THEN Tail(pushed) ELSE pushed

\* MovingAverageFilter::getResult: the mean of the samples held, as the
\* fraction num / den.
getResult(samples) == [num |-> SumSeq(samples), den |-> Len(samples)]

\* The outputs StanleyController::calculateSteeringAngle can leave in its
\* result (halves of a degree): the law has no bound of its own.
RawSteer == { -2000, -101, -10, 10, 11, 99, 2000 }

kXycarSteeringAangleLimit == 50

\* The constant of line 82 added to the error.
kErrorOffset == 6

----------------------------------------------------------------------------
(* The pure parts of run(), speedControl and drive *)

\* static_cast<int32_t>((leftPosisionX + rightPositionX) / 2)
Midpoint(left, right) == TruncDiv(left + right, 2)

\* Mutant of EstimatedPositionX: the result is rounded to the nearest integer.
EstimatedPositionXRounded(samples) ==
    LET r == getResult(samples)
    IN  IF r.num >= 0 THEN (2 * r.num + r.den) \div (2 * r.den)
        ELSE -((r.den - 2 * r.num) \div (2 * r.den))

\* static_cast<int32_t>(mMovingAverage->getResult())
EstimatedPositionX(samples) ==
    LET r == getResult(samples) IN TruncDiv(r.num, r.den)

\* Mutant of ErrorFromMid: the constant correction is left out.
ErrorFromMidNoOffset(est, frame) == est - TruncDiv(frame.cols, 2)

\* estimatedPositionX - static_cast<int32_t>(mFrame.cols / 2) + 6
ErrorFromMid(est, frame) == est - TruncDiv(frame.cols, 2) + kErrorOffset

\* Mutant of ClampSteering: the lower clamp is missing.
ClampSteeringNoLower(raw) == Min(raw, 2 * kXycarSteeringAangleLimit)

\* std::max(-limit, std::min(stanleyResult, limit)), in halves
ClampSteering(raw) ==
    Max(-(2 * kXycarSteeringAangleLimit), Min(raw, 2 * kXycarSteeringAangleLimit))

\* Mutant of speedControl: the accelerating branch forgets its clamp.
speedControlNoUpperClamp(speed, steeringAngle) ==
    IF Abs(steeringAngle) > mXycarSpeedControlThreshold
    THEN Max(speed - mDecelerationStep, mXycarMinSpeed)
    ELSE speed + mAccelerationStep

\* Mutant of speedControl: the threshold itself already decelerates.
speedControlGE(speed, steeringAngle) ==
    IF Abs(steeringAngle) >= mXycarSpeedControlThreshold
    THEN Max(speed - mDecelerationStep, mXycarMinSpeed)
    ELSE Min(speed + mAccelerationStep, mXycarMaxSpeed)

\* speedControl: the speed it leaves in mXycarSpeed
speedControl(speed, steeringAngle) ==
    IF Abs(steeringAngle) > mXycarSpeedControlThreshold
    THEN Max(speed - mDecelerationStep, mXycarMinSpeed)
    ELSE Min(speed + mAccelerationStep, mXycarMaxSpeed)

\* Mutant of MotorMessage: the fields are cast to integers, not rounded.
MotorMessageTruncated(steeringAngle, speed) ==
    [angle |-> TruncDiv(steeringAngle, 2), speed |-> TruncDiv(speed, 2)]

\* drive: the message it publishes
MotorMessage(steeringAngle, speed) ==
    [angle |-> Round(steeringAngle), speed |-> Round(speed)]

----------------------------------------------------------------------------
(* Initial state: the process has started, the constructor has not run *)

NoLocals == [left |-> 0, right |-> 0, est |-> 0, err |-> 0, steer |-> 0]

NoMessage == [angle |-> 0, speed |-> 0]

\* The run that receives the same images, the same detector results and the
\* same schedule, with the opposite DEBUG flag: its speed, filter, locals,
\* steering law, messages and debug window.
NoTwin ==
    [ speed |-> 0, samples |-> << >>, est |-> 0, err |-> 0, steer |-> 0,
      stanleyInput |-> << >>, stanleyResult |-> 0,
      message |-> NoMessage, published |-> 0, debugFrame |-> << >> ]

Init ==
    /\ config \in Configs
    /\ pc = "start"
    /\ rosOk = TRUE
    /\ inbox = << >>
    /\ todo = 0
    /\ src = EmptyMat
    /\ mFrame = EmptyMat
    /\ mSamples = << >>
    /\ stanleyInput = << >>
    /\ stanleyResult = 0
    /\ mXycarSpeed = 0
    /\ mXycarMaxSpeed = 0
    /\ mXycarMinSpeed = 0
    /\ mXycarSpeedControlThreshold = 0
    /\ mAccelerationStep = 0
    /\ mDecelerationStep = 0
    /\ mQueueSize = 0
    /\ mSampleSize = 0
    /\ mDebugging = FALSE
    /\ loc = NoLocals
    /\ motorMessage = NoMessage
    /\ debugFrame = << >>
    /\ history = << >>
    /\ cycles = 0
    /\ activeCycles = 0
    /\ nDetect = 0
    /\ nSteer = 0
    /\ nSpeedUpdates = 0
    /\ nPublished = 0
    /\ nStored = 0
    /\ nDelivered = 0
    /\ rateSleeps = 0
    /\ lastImage = EmptyMat
    /\ twin = NoTwin

\* The positions of the main thread inside run().
LoopPcs == { "ok", "spin", "test", "detect", "filter", "estimate", "steer",
             "speed", "drive", "debug" }

----------------------------------------------------------------------------
(* LaneKeepingSystem() and setParams *)

\* A read of the constructor throws: the object is not built, run() is not called.
ConstructorThrows ==
    /\ pc = "start"
    /\ \E f \in FieldsRead : Throws(config.status[f])
    /\ pc' = "failed"
    /\ UNCHANGED << config, twin, lastImage, rosOk, inbox, todo, src, mFrame, mSamples, stanleyInput,
                    stanleyResult, members, loc, motorMessage, debugFrame,
                    history, counters >>

\* Every read succeeds: the members are set and main calls run().
Constructor ==
    /\ pc = "start"
    /\ \A f \in FieldsRead : ~Throws(config.status[f])
    /\ mSampleSize' = config.other.SAMPLE_SIZE
    /\ mQueueSize' = config.other.QUEUE_SIZE
    /\ mXycarSpeed' = config.speed.START_SPEED
    /\ mXycarMaxSpeed' = config.speed.MAX_SPEED
    /\ mXycarMinSpeed' = config.speed.MIN_SPEED
    /\ mXycarSpeedControlThreshold' = config.speed.SPEED_CONTROL_THRESHOLD
    /\ mAccelerationStep' = config.speed.ACCELERATION_STEP
    /\ mDecelerationStep' = config.speed.DECELERATION_STEP
    /\ mDebugging' = config.other.DEBUG
    /\ pc' = "ok"
    /\ twin' = [twin EXCEPT !.speed = config.speed.START_SPEED]
    /\ UNCHANGED << config, lastImage, rosOk, inbox, todo, src, mFrame, mSamples, stanleyInput,
                    stanleyResult, loc, motorMessage, debugFrame, history,
                    counters >>

----------------------------------------------------------------------------
(* The transport *)

\* The camera's image reaches the subscriber: it is queued for the next
\* spinOnce; a full queue (mQueueSize) drops its oldest image.
Deliver ==
    /\ pc \in LoopPcs
    /\ rosOk
    /\ nDelivered < MaxDelivered
    /\ \E image \in Images :
         inbox' = IF Len(inbox) >= mQueueSize
                  THEN Append(Tail(inbox), image)
                  ELSE Append(inbox, image)
    /\ nDelivered' = nDelivered + 1
    /\ UNCHANGED << config, twin, lastImage, pc, rosOk, todo, src, mFrame, mSamples, stanleyInput,
                    stanleyResult, members, loc, motorMessage, debugFrame,
                    history, cycles, activeCycles, nDetect, nSteer, nSpeedUpdates,
                    nPublished, nStored, rateSleeps >>

\* The runtime signals shutdown: ros::ok() returns false from now on.
Shutdown ==
    /\ pc \in LoopPcs
    /\ rosOk
    /\ rosOk' = FALSE
    /\ UNCHANGED << config, twin, lastImage, pc, inbox, todo, src, mFrame, mSamples, stanleyInput,
                    stanleyResult, members, loc, motorMessage, debugFrame,
                    history, counters >>

----------------------------------------------------------------------------
(* imageCallback *)

\* Mutant of CallbackContext: the callbacks run on a spinner thread of their
\* own, at any position of run().
CallbackContextAnyThread == pc \in LoopPcs

\* Where the subscriber's callbacks run: inside ros::spinOnce(), on the thread
\* of run(), once for each callback that was queued when spinOnce was called.
CallbackContext == pc = "spin" /\ todo > 0

\* Line 104: the callback wraps the message; cvtColor starts to write mFrame.
ImageCallbackEnter ==
    /\ CallbackContext
    /\ src = EmptyMat
    /\ inbox # << >>
    /\ src' = Head(inbox)
    /\ inbox' = Tail(inbox)
    /\ mFrame' = Torn(mFrame, Head(inbox))
    /\ todo' = IF todo > 0 THEN todo - 1 ELSE 0
    /\ lastImage' = Head(inbox)
    /\ UNCHANGED << config, twin, pc, rosOk, mSamples, stanleyInput, stanleyResult,
                    members, loc, motorMessage, debugFrame, history, counters >>

\* Mutant of ImageCallbackReturn: the conversion stops with the frame partly
\* written.
ImageCallbackReturnPartial ==
    /\ src # EmptyMat
    /\ mFrame' = mFrame
    /\ src' = EmptyMat
    /\ nStored' = nStored + 1
    /\ UNCHANGED << config, twin, lastImage, pc, rosOk, inbox, todo, mSamples,
                    stanleyInput, stanleyResult, members, loc, motorMessage,
                    debugFrame, history, cycles, activeCycles, nDetect, nSteer,
                    nSpeedUpdates, nPublished, nDelivered, rateSleeps >>

\* Line 105: cvtColor has written the whole frame; the callback returns.
ImageCallbackReturn ==
    /\ src # EmptyMat
    /\ mFrame' = cvtColor(src)
    /\ src' = EmptyMat
    /\ nStored' = nStored + 1
    /\ UNCHANGED << config, twin, lastImage, pc, rosOk, inbox, todo, mSamples, stanleyInput,
                    stanleyResult, members, loc, motorMessage, debugFrame,
                    history, cycles, activeCycles, nDetect, nSteer, nSpeedUpdates,
                    nPublished, nDelivered, rateSleeps >>

----------------------------------------------------------------------------
(* run() *)

\* Line 71: ros::ok() holds, the next iteration starts with ros::spinOnce().
LoopEnter ==
    /\ pc = "ok"
    /\ rosOk
    /\ cycles < MaxCycles
    /\ pc' = "spin"
    /\ todo' = Len(inbox)
    /\ cycles' = cycles + 1
    /\ UNCHANGED << config, twin, lastImage, rosOk, inbox, src, mFrame, mSamples, stanleyInput,
                    stanleyResult, members, loc, motorMessage, debugFrame,
                    history, activeCycles, nDetect, nSteer, nSpeedUpdates,
                    nPublished, nStored, nDelivered, rateSleeps >>

\* Line 71: ros::ok() fails, run() returns.
LoopExit ==
    /\ pc = "ok"
    /\ ~rosOk
    /\ pc' = "exit"
    /\ UNCHANGED << config, twin, lastImage, rosOk, inbox, todo, src, mFrame, mSamples,
                    stanleyInput, stanleyResult, members, loc, motorMessage,
                    debugFrame, history, counters >>

\* Line 73: ros::spinOnce() returns once it has called the callbacks it found.
SpinOnceReturn ==
    /\ pc = "spin"
    /\ src = EmptyMat
    /\ todo = 0 \/ inbox = << >>
    /\ pc' = "test"
    /\ todo' = 0
    /\ UNCHANGED << config, twin, lastImage, rosOk, inbox, src, mFrame, mSamples, stanleyInput,
                    stanleyResult, members, loc, motorMessage, debugFrame,
                    history, counters >>

\* Lines 74-75: no frame yet, continue.
SkipCycle ==
    /\ pc = "test"
    /\ Empty(mFrame)
    /\ pc' = "ok"
    /\ UNCHANGED << config, twin, lastImage, rosOk, inbox, todo, src, mFrame, mSamples,
                    stanleyInput, stanleyResult, members, loc, motorMessage,
                    debugFrame, history, counters >>

\* Line 74: there is a frame, the pipeline starts.
StartPipeline ==
    /\ pc = "test"
    /\ ~Empty(mFrame)
    /\ pc' = "detect"
    /\ activeCycles' = activeCycles + 1
    /\ UNCHANGED << config, twin, lastImage, rosOk, inbox, todo, src, mFrame, mSamples,
                    stanleyInput, stanleyResult, members, loc, motorMessage,
                    debugFrame, history, cycles, nDetect, nSteer, nSpeedUpdates,
                    nPublished, nStored, nDelivered, rateSleeps >>

\* Line 77: getLanePosition(mFrame)
Detect ==
    /\ pc = "detect"
    /\ loc' = [loc EXCEPT !.left = getLanePosition(mFrame)[1],
                          !.right = getLanePosition(mFrame)[2]]
    /\ nDetect' = nDetect + 1
    /\ pc' = "filter"
    /\ UNCHANGED << config, twin, lastImage, rosOk, inbox, todo, src, mFrame, mSamples,
                    stanleyInput, stanleyResult, members, motorMessage,
                    debugFrame, history, cycles, activeCycles, nSteer,
                    nSpeedUpdates, nPublished, nStored, nDelivered, rateSleeps >>

\* Line 80: mMovingAverage->addSample(...)
AddSample ==
    /\ pc = "filter"
    /\ mSamples' = addSample(mSamples, Midpoint(loc.left, loc.right), mSampleSize)
    /\ history' = Append(history, Midpoint(loc.left, loc.right))
    /\ pc' = "estimate"
    /\ twin' = [twin EXCEPT !.samples =
                 addSample(@, Midpoint(loc.left, loc.right), mSampleSize)]
    /\ UNCHANGED << config, lastImage, rosOk, inbox, todo, src, mFrame, stanleyInput,
                    stanleyResult, members, loc, motorMessage, debugFrame,
                    counters >>

\* Mutant of Estimate: the result is read before the sample of this cycle is
\* added (lines 80 and 81 exchanged).
EstimateStale ==
    LET before == LastN(SubSeq(history, 1, Len(history) - 1), mSampleSize)
        est == IF before = << >> THEN 0 ELSE EstimatedPositionX(before)
    IN  /\ pc = "estimate"
        /\ loc' = [loc EXCEPT !.est = est, !.err = ErrorFromMid(est, mFrame)]
        /\ pc' = "steer"
        /\ twin' = [twin EXCEPT !.est = est, !.err = ErrorFromMid(est, mFrame)]
        /\ UNCHANGED << config, lastImage, rosOk, inbox, todo, src, mFrame,
                        mSamples, stanleyInput, stanleyResult, members,
                        motorMessage, debugFrame, history, counters >>

\* Lines 81-82: estimatedPositionX and errorFromMid
Estimate ==
    /\ pc = "estimate"
    /\ loc' = [loc EXCEPT !.est = EstimatedPositionX(mSamples),
                          !.err = ErrorFromMid(EstimatedPositionX(mSamples), mFrame)]
    /\ pc' = "steer"
    /\ twin' = [twin EXCEPT !.est = EstimatedPositionX(twin.samples),
                            !.err = ErrorFromMid(EstimatedPositionX(twin.samples), mFrame)]
    /\ UNCHANGED << config, lastImage, rosOk, inbox, todo, src, mFrame, mSamples,
                    stanleyInput, stanleyResult, members, motorMessage,
                    debugFrame, history, counters >>

\* Lines 84-86: the steering law and the clamp of its result
Steer ==
    /\ pc = "steer"
    /\ stanleyInput' = << loc.err, 0, mXycarSpeed >>
    /\ \E raw \in RawSteer, twinRaw \in RawSteer :
         /\ stanleyResult' = raw
         /\ loc' = [loc EXCEPT !.steer = ClampSteering(raw)]
         \* the law is a function of its arguments: same arguments, same result
         /\ << twin.err, 0, twin.speed >> = << loc.err, 0, mXycarSpeed >> => twinRaw = raw
         /\ twin' = [twin EXCEPT !.stanleyInput = << twin.err, 0, twin.speed >>,
                                 !.stanleyResult = twinRaw,
                                 !.steer = ClampSteering(twinRaw)]
    /\ nSteer' = nSteer + 1
    /\ pc' = "speed"
    /\ UNCHANGED << config, lastImage, rosOk, inbox, todo, src, mFrame, mSamples, members,
                    motorMessage, debugFrame, history, cycles, activeCycles,
                    nDetect, nSpeedUpdates, nPublished, nStored, nDelivered,
                    rateSleeps >>

\* Line 88: speedControl(steeringAngle)
SpeedControl ==
    /\ pc = "speed"
    /\ mXycarSpeed' = speedControl(mXycarSpeed, loc.steer)
    /\ nSpeedUpdates' = nSpeedUpdates + 1
    /\ pc' = "drive"
    /\ twin' = [twin EXCEPT !.speed = speedControl(twin.speed, twin.steer)]
    /\ UNCHANGED << config, lastImage, rosOk, inbox, todo, src, mFrame, mSamples,
                    stanleyInput, stanleyResult, mXycarMaxSpeed, mXycarMinSpeed,
                    mXycarSpeedControlThreshold, mAccelerationStep,
                    mDecelerationStep, mQueueSize, mSampleSize, mDebugging, loc,
                    motorMessage, debugFrame, history, cycles, activeCycles,
                    nDetect, nSteer, nPublished, nStored, nDelivered, rateSleeps >>

\* Mutant of Drive: a message equal to the last one is not published again.
DriveOnChange ==
    /\ pc = "drive"
    /\ motorMessage' = MotorMessage(loc.steer, mXycarSpeed)
    /\ nPublished' = IF motorMessage' = motorMessage THEN nPublished
                     ELSE nPublished + 1
    /\ pc' = "debug"
    /\ twin' = [twin EXCEPT !.message = MotorMessage(twin.steer, twin.speed),
                            !.published = @ + 1]
    /\ UNCHANGED << config, lastImage, rosOk, inbox, todo, src, mFrame, mSamples,
                    stanleyInput, stanleyResult, members, loc, debugFrame,
                    history, cycles, activeCycles, nDetect, nSteer,
                    nSpeedUpdates, nStored, nDelivered, rateSleeps >>

\* Mutant of Drive: after shutdown the cycle is abandoned before it publishes.
DriveUnlessShutdown ==
    /\ pc = "drive"
    /\ motorMessage' = IF rosOk THEN MotorMessage(loc.steer, mXycarSpeed)
                       ELSE motorMessage
    /\ nPublished' = IF rosOk THEN nPublished + 1 ELSE nPublished
    /\ pc' = IF rosOk THEN "debug" ELSE "exit"
    /\ twin' = IF rosOk
               THEN [twin EXCEPT !.message = MotorMessage(twin.steer, twin.speed),
                                 !.published = @ + 1]
               ELSE twin
    /\ UNCHANGED << config, lastImage, rosOk, inbox, todo, src, mFrame, mSamples,
                    stanleyInput, stanleyResult, members, loc, debugFrame,
                    history, cycles, activeCycles, nDetect, nSteer,
                    nSpeedUpdates, nStored, nDelivered, rateSleeps >>

\* Mutant of Drive: the publish call waits for ros::ok().
DriveWhileOk ==
    /\ rosOk
    /\ pc = "drive"
    /\ motorMessage' = MotorMessage(loc.steer, mXycarSpeed)
    /\ nPublished' = nPublished + 1
    /\ pc' = "debug"
    /\ twin' = [twin EXCEPT !.message = MotorMessage(twin.steer, twin.speed),
                            !.published = @ + 1]
    /\ UNCHANGED << config, lastImage, rosOk, inbox, todo, src, mFrame, mSamples,
                    stanleyInput, stanleyResult, members, loc, debugFrame,
                    history, cycles, activeCycles, nDetect, nSteer,
                    nSpeedUpdates, nStored, nDelivered, rateSleeps >>

\* Line 89: drive(steeringAngle)
Drive ==
    /\ pc = "drive"
    /\ motorMessage' = MotorMessage(loc.steer, mXycarSpeed)
    /\ nPublished' = nPublished + 1
    /\ pc' = "debug"
    /\ twin' = [twin EXCEPT !.message = MotorMessage(twin.steer, twin.speed),
                            !.published = @ + 1]
    /\ UNCHANGED << config, lastImage, rosOk, inbox, todo, src, mFrame, mSamples,
                    stanleyInput, stanleyResult, members, loc, debugFrame,
                    history, cycles, activeCycles, nDetect, nSteer,
                    nSpeedUpdates, nStored, nDelivered, rateSleeps >>

\* Mutant of Debug: the debug branch drops the filter's oldest sample.
DebugTouchesFilter ==
    /\ pc = "debug"
    /\ debugFrame' = IF mDebugging THEN << loc.left, loc.right, loc.est >>
                     ELSE debugFrame
    /\ mSamples' = IF mDebugging /\ mSamples # << >> THEN Tail(mSamples)
                   ELSE mSamples
    /\ loc' = NoLocals
    /\ pc' = "ok"
    /\ twin' = [twin EXCEPT
                 !.debugFrame = IF ~mDebugging THEN << loc.left, loc.right, twin.est >>
                                ELSE @,
                 !.samples = IF ~mDebugging /\ @ # << >> THEN Tail(@) ELSE @,
                 !.est = 0, !.err = 0, !.steer = 0]
    /\ UNCHANGED << config, lastImage, rosOk, inbox, todo, src, mFrame,
                    stanleyInput, stanleyResult, members, motorMessage, history,
                    counters >>

\* Mutant of Debug: the iteration consumes the frame it has processed.
DebugAndRelease ==
    /\ pc = "debug"
    /\ debugFrame' = IF mDebugging THEN << loc.left, loc.right, loc.est >>
                     ELSE debugFrame
    /\ loc' = NoLocals
    /\ mFrame' = EmptyMat
    /\ pc' = "ok"
    /\ twin' = [twin EXCEPT
                 !.debugFrame = IF ~mDebugging THEN << loc.left, loc.right, twin.est >>
                                ELSE @,
                 !.est = 0, !.err = 0, !.steer = 0]
    /\ UNCHANGED << config, lastImage, rosOk, inbox, todo, src, mSamples, stanleyInput,
                    stanleyResult, members, motorMessage, history, counters >>

\* Lines 91-98: the debug window, then the end of the iteration (its locals
\* go out of scope); no rate.sleep() is called.
Debug ==
    /\ pc = "debug"
    /\ debugFrame' = IF mDebugging THEN << loc.left, loc.right, loc.est >>
                     ELSE debugFrame
    /\ loc' = NoLocals
    /\ pc' = "ok"
    /\ twin' = [twin EXCEPT
                 !.debugFrame = IF ~mDebugging THEN << loc.left, loc.right, twin.est >>
                                ELSE @,
                 !.est = 0, !.err = 0, !.steer = 0]
    /\ UNCHANGED << config, lastImage, rosOk, inbox, todo, src, mFrame, mSamples,
                    stanleyInput, stanleyResult, members, motorMessage, history,
                    counters >>

Next ==
    \/ ConstructorThrows
    \/ Constructor
    \/ Deliver
    \/ Shutdown
    \/ ImageCallbackEnter
    \/ ImageCallbackReturn
    \/ LoopEnter
    \/ LoopExit
    \/ SpinOnceReturn
    \/ SkipCycle
    \/ StartPipeline
    \/ Detect
    \/ AddSample
    \/ Estimate
    \/ Steer
    \/ SpeedControl
    \/ Drive
    \/ Debug

Spec == Init /\ [][Next]_vars

----------------------------------------------------------------------------
(* Properties *)

Constructed == pc \in LoopPcs \cup {"exit"}

\* C1: in every state from setParams on, mXycarSpeed lies within
\* [mXycarMinSpeed, mXycarMaxSpeed], for every configuration.
C1_SpeedWithinBounds ==
    Constructed => (mXycarMinSpeed <= mXycarSpeed /\ mXycarSpeed <= mXycarMaxSpeed)

\* C2: whatever the steering law returns, the angle handed to speedControl and
\* drive and the rounded angle of every published message lie within the
\* steering limit; a raw value beyond the limit gives exactly the limit.
C2_SteeringWithinLimit ==
    LET limit == kXycarSteeringAangleLimit
    IN  /\ pc \in {"speed", "drive", "debug"} =>
             /\ -(2 * limit) <= loc.steer /\ loc.steer <= 2 * limit
             /\ stanleyResult > 2 * limit => loc.steer = 2 * limit
             /\ stanleyResult < -(2 * limit) => loc.steer = -(2 * limit)
        /\ -limit <= motorMessage.angle /\ motorMessage.angle <= limit
        /\ pc = "debug" =>
             /\ stanleyResult > 2 * limit => motorMessage.angle = limit
             /\ stanleyResult < -(2 * limit) => motorMessage.angle = -limit

C2_Witness ==
    /\ pc = "debug"
    /\ stanleyResult = 2000
    /\ motorMessage.angle = kXycarSteeringAangleLimit
    /\ nPublished >= 2

\* C3: for a speed within [min, max], one speedControl call leaves
\* min(speed + accelerationStep, max) when |steeringAngle| <= threshold and
\* max(speed - decelerationStep, min) when |steeringAngle| > threshold; only
\* the magnitude of the angle matters.
C3_SpeedControlStep ==
    [][ ( /\ pc = "speed" /\ pc' = "drive"
          /\ mXycarMinSpeed <= mXycarSpeed /\ mXycarSpeed <= mXycarMaxSpeed )
        => LET magnitude == IF loc.steer < 0 THEN -loc.steer ELSE loc.steer
               up == mXycarSpeed + mAccelerationStep
               down == mXycarSpeed - mDecelerationStep
           IN  mXycarSpeed' =
                 IF magnitude <= mXycarSpeedControlThreshold
                 THEN (IF up > mXycarMaxSpeed THEN mXycarMaxSpeed ELSE up)
                 ELSE (IF down < mXycarMinSpeed THEN mXycarMinSpeed ELSE down)
      ]_vars

C3_Witness ==
    /\ pc = "drive"
    /\ loc.steer = -mXycarSpeedControlThreshold
    /\ config.speed.START_SPEED <= mXycarMaxSpeed
    /\ nSpeedUpdates >= 2
    /\ mXycarSpeed = mXycarMaxSpeed

\* C4: while no frame has ever been received every cycle is skipped: the
\* speed, the filter and the steering law keep their initial state, the
\* detector is not called and nothing is published.
C4_IdleCyclesChangeNothing ==
    (pc \in LoopPcs /\ nStored = 0 /\ src = EmptyMat) =>
        /\ pc \in {"ok", "spin", "test"}
        /\ mXycarSpeed = config.speed.START_SPEED
        /\ mSamples = << >> /\ history = << >>
        /\ stanleyResult = 0 /\ stanleyInput = << >> /\ nSteer = 0
        /\ nDetect = 0
        /\ nSpeedUpdates = 0
        /\ nPublished = 0 /\ motorMessage = NoMessage

C4_Witness ==
    /\ pc = "ok" /\ cycles >= 2
    /\ nStored = 0 /\ src = EmptyMat /\ nDelivered = 0

\* C5: once imageCallback has stored a frame the slot is never empty again,
\* and a cycle that finds it so goes on to the detector with the stored frame,
\* without a new frame being stored first.
C5_NoReturnToIdle ==
    [][ /\ nStored >= 1 => (mFrame.cols > 0 /\ mFrame'.cols > 0)
        /\ (pc = "test" /\ nStored >= 1 /\ pc' # pc) =>
              (pc' = "detect" /\ mFrame' = mFrame /\ nStored' = nStored)
      ]_vars

C5_Witness ==
    /\ pc = "detect"
    /\ nDelivered = 1 /\ nStored = 1 /\ inbox = << >>
    /\ activeCycles >= 2

\* C6: every completed cycle that had a frame has published one message, added
\* one sample and updated the speed once: between cycles the three counts
\* equal the number of cycles that ran with a frame, and inside a cycle each
\* is at most one behind.
C6_OnePerCycle ==
    LET done(n) == IF pc \in {"ok", "spin", "test", "exit"}
                   THEN n = activeCycles
                   ELSE n = activeCycles \/ n = activeCycles - 1
    IN  /\ done(nPublished)
        /\ done(Len(history))
        /\ done(nSpeedUpdates)

C6_Witness ==
    /\ pc = "ok"
    /\ cycles = 3 /\ activeCycles = 2
    /\ nPublished = 2 /\ Len(history) = 2 /\ nSpeedUpdates = 2

\* C7: imageCallback writes mFrame only while run() is inside ros::spinOnce():
\* at the emptiness test, the detector call and the width read the frame is
\* whole, and the frame whose width is read is the one the detector saw.
C7_FrameAccessExclusive ==
    /\ src # EmptyMat => pc = "spin"
    /\ pc \in {"test", "detect", "filter", "estimate"} =>
          (mFrame = EmptyMat \/ \E image \in Images : mFrame = cvtColor(image))
    /\ pc \in {"filter", "estimate"} =>
          (loc.left = mFrame.left /\ loc.right = mFrame.right)

C7_Witness ==
    /\ pc = "estimate"
    /\ inbox # << >>
    /\ cvtColor(Head(inbox)) # mFrame

\* The fields spec section 6 requires of the configuration document.
RequiredFields ==
    { "TOPIC.PUB_NAME", "TOPIC.SUB_NAME", "TOPIC.QUEUE_SIZE",
      "XYCAR.START_SPEED", "XYCAR.MAX_SPEED", "XYCAR.MIN_SPEED",
      "XYCAR.SPEED_CONTROL_THRESHOLD",
      "XYCAR.ACCELERATION_STEP", "XYCAR.DECELERATION_STEP",
      "STANLEY.K_GAIN", "STANLEY.LOOK_AHREAD_DISTANCE",
      "MOVING_AVERAGE_FILTER.SAMPLE_SIZE", "DEBUG" }

\* C8: with a required field missing or malformed the constructor fails:
\* run() starts no cycle and nothing is published.
C8_BadConfigNeverRuns ==
    (\E f \in RequiredFields : config.status[f] # "ok") =>
        /\ pc \in {"start", "failed"}
        /\ cycles = 0
        /\ nPublished = 0

C8_Witness ==
    /\ pc = "failed"
    /\ config.status["XYCAR.MAX_SPEED"] = "malformed"

\* C9: between the starts of two cycles the loop waits on the fixed-rate
\* timer: every cycle after the first is preceded by a rate.sleep().
C9_FixedRate ==
    pc \in LoopPcs => cycles <= rateSleeps + 1

\* C10: the filter never holds more than its capacity N, a full buffer evicts
\* its oldest sample, and getResult is the mean of the most recent
\* min(count, N) samples.
C10_MovingAverage ==
    LET window == LastN(history, mSampleSize)
        result == getResult(mSamples)
    IN  /\ Len(mSamples) <= mSampleSize
        /\ mSamples = window
        /\ history # << >> =>
              /\ result.den > 0
              /\ Len(window) = Min(Len(history), mSampleSize)
              /\ result.num * Len(window) = SumSeq(window) * result.den

C10_Witness ==
    /\ pc = "estimate"
    /\ mSampleSize = 2
    /\ Len(history) = 3
    /\ mSamples = << history[2], history[3] >>
    /\ history[1] # history[3]
    /\ getResult(mSamples) = [num |-> 641, den |-> 2]

\* C11: the run that differs only in the debug flag, given the same images,
\* detector results and schedule, has the same speed, filter, steering and
\* messages in every state, and has published as many messages.
C11_DebugFlagIndependent ==
    /\ twin.speed = mXycarSpeed
    /\ twin.samples = mSamples
    /\ twin.est = loc.est /\ twin.err = loc.err /\ twin.steer = loc.steer
    /\ twin.stanleyInput = stanleyInput /\ twin.stanleyResult = stanleyResult
    /\ twin.message = motorMessage
    /\ twin.published = nPublished

C11_Witness ==
    /\ pc = "ok"
    /\ mDebugging
    /\ nPublished >= 2
    /\ debugFrame # << >> /\ twin.debugFrame = << >>
    /\ twin.message = motorMessage /\ twin.message # NoMessage

\* The fraction num / den rounded to the nearest integer, halves away from zero.
RoundQ(num, den) ==
    IF num >= 0 THEN (2 * num + den) \div (2 * den)
    ELSE -((den - 2 * num) \div (2 * den))

\* C12 as stated: the center position is the filter's result rounded to the
\* nearest integer.
C12_CenterIsRounded ==
    pc = "steer" =>
        LET r == getResult(mSamples) IN loc.est = RoundQ(r.num, r.den)

\* C12 as amended: the center position is the filter's result truncated toward
\* zero; it is the rounded result when the fractional part is below one half.
C12_CenterIsTruncated ==
    pc = "steer" =>
        LET r == getResult(mSamples)
            c == loc.est
        IN  /\ r.num >= 0 => (c * r.den <= r.num /\ r.num < (c + 1) * r.den)
            /\ r.num < 0 => ((c - 1) * r.den < r.num /\ r.num <= c * r.den)
            /\ 2 * Abs(r.num - c * r.den) < r.den => c = RoundQ(r.num, r.den)

C12_Witness ==
    /\ pc = "steer"
    /\ mSamples = << 320, 321 >>
    /\ loc.est = 320

\* C13: the error passed to the steering law is the center position minus the
\* integer half of the frame width plus 6; with no earlier samples, a frame
\* 640 wide and lane marks at 200 and 440 it is 6.
C13_ErrorFromCenter ==
    pc = "steer" =>
        /\ loc.err = loc.est - (mFrame.cols \div 2) + 6
        /\ ( /\ Len(history) = 1
             /\ mFrame.cols = 640 /\ loc.left = 200 /\ loc.right = 440 )
           => (loc.est = 320 /\ loc.err = 6)

C13_Witness ==
    /\ pc = "steer"
    /\ Len(history) = 1
    /\ mFrame.cols = 640 /\ loc.left = 200 /\ loc.right = 440
    /\ loc.err = 6

\* C14: a cycle with a frame runs detect, add sample, steering, clamp, speed
\* update, publish in this order; the steering law gets heading error 0 and
\* the speed the previous cycle left (the start speed in the first cycle), the
\* speed update uses the clamped angle of the same cycle, and the message
\* carries the rounded clamped angle and the rounded speed after the update.
C14_CycleOrder ==
    [][ LET limit == 2 * kXycarSteeringAangleLimit
            magnitude == IF loc.steer < 0 THEN -loc.steer ELSE loc.steer
            up == mXycarSpeed + mAccelerationStep
            down == mXycarSpeed - mDecelerationStep
        IN
        /\ (pc = "detect" /\ pc' # pc) =>
              /\ pc' = "filter"
              /\ nDetect' = activeCycles /\ Len(history) = activeCycles - 1
        /\ (pc = "filter" /\ pc' # pc) =>
              /\ pc' = "estimate"
              /\ Len(history') = activeCycles /\ nSteer = activeCycles - 1
        /\ (pc = "estimate" /\ pc' # pc) => pc' = "steer"
        /\ (pc = "steer" /\ pc' # pc) =>
              /\ pc' = "speed"
              /\ nSteer' = activeCycles /\ nSpeedUpdates = activeCycles - 1
              /\ stanleyInput' = << loc.err, 0, mXycarSpeed >>
              /\ activeCycles = 1 => stanleyInput'[3] = config.speed.START_SPEED
              /\ mXycarSpeed' = mXycarSpeed
              /\ loc'.steer = IF stanleyResult' > limit THEN limit
                              ELSE IF stanleyResult' < -limit THEN -limit
                              ELSE stanleyResult'
        /\ (pc = "speed" /\ pc' # pc) =>
              /\ pc' = "drive"
              /\ nSpeedUpdates' = activeCycles /\ nPublished = activeCycles - 1
              /\ loc' = loc
              /\ mXycarSpeed' =
                   IF magnitude <= mXycarSpeedControlThreshold
                   THEN (IF up > mXycarMaxSpeed THEN mXycarMaxSpeed ELSE up)
                   ELSE (IF down < mXycarMinSpeed THEN mXycarMinSpeed ELSE down)
        /\ (pc = "drive" /\ pc' # pc) =>
              /\ pc' = "debug"
              /\ nPublished' = activeCycles
              /\ mXycarSpeed' = mXycarSpeed
              /\ motorMessage' = [angle |-> Round(loc.steer),
                                  speed |-> Round(mXycarSpeed)]
      ]_vars

C14_Witness ==
    /\ pc = "debug"
    /\ activeCycles = 2
    /\ stanleyInput[2] = 0
    /\ stanleyInput[3] # mXycarSpeed
    /\ mXycarSpeed % 2 = 1
    /\ loc.steer = 99
    /\ motorMessage = [angle |-> 50, speed |-> (mXycarSpeed + 1) \div 2]

\* C15: once the detector has returned the same lane positions in N cycles
\* in a row (N the filter's sample size), the center position equals their
\* midpoint, in that cycle and in every later cycle of the run of equal
\* positions, whatever the filter held before.
C15_ConstantInputConverges ==
    LET n == Len(history)
    IN  ( /\ pc \in {"steer", "speed", "drive", "debug"}
          /\ mSampleSize >= 1 /\ n >= mSampleSize
          /\ \A i \in (n - mSampleSize + 1) .. n : history[i] = history[n] )
        => loc.est = history[n]

C15_Witness ==
    /\ pc = "steer"
    /\ mSampleSize = 2
    /\ Len(history) = 3
    /\ history[1] # history[2] /\ history[2] = history[3]
    /\ loc.est = history[3]

\* After a completed imageCallback the slot holds the last image handed to it,
\* whole, and the detector's result of the running cycle is that image's.
C16_LatestFrameStored ==
    /\ (src = EmptyMat /\ nStored >= 1) =>
          mFrame = [cols |-> lastImage.cols, order |-> "BGR",
                    left |-> lastImage.left, right |-> lastImage.right]
    /\ pc \in {"filter", "estimate", "steer", "speed", "drive", "debug"} =>
          (loc.left = lastImage.left /\ loc.right = lastImage.right)

\* C16: each image handed to imageCallback replaces the stored frame whole,
\* the cycle processes the one handed over last, also when several were
\* handed over before it reads the slot, and without a new one the slot, and
\* so the frame the next cycle processes, stays the same.
C16_LastFrameWins ==
    [][ /\ C16_LatestFrameStored
        /\ C16_LatestFrameStored'
        /\ (nStored' = nStored /\ src = EmptyMat /\ src' = EmptyMat) =>
              (mFrame' = mFrame /\ lastImage' = lastImage)
      ]_vars

C16_Witness ==
    /\ pc = "filter"
    /\ mQueueSize = 2
    /\ cycles = 1 /\ activeCycles = 1
    /\ nStored = 2
    /\ loc.left = 203 /\ mFrame.left = 203

\* The steps of the thread that runs run(), the callbacks of spinOnce included.
MainThread ==
    \/ LoopEnter \/ LoopExit \/ SpinOnceReturn
    \/ ImageCallbackEnter \/ ImageCallbackReturn
    \/ SkipCycle \/ StartPipeline
    \/ Detect \/ AddSample \/ Estimate \/ Steer \/ SpeedControl \/ Drive \/ Debug

\* C17: a cycle that has started with a frame runs on, shutdown or not, through
\* its publish call to the loop head: inside the cycle the thread of run() can
\* always take its next step and that step is the next statement; run()
\* returns only from the loop head; after shutdown no new cycle starts, the
\* thread can always step, and from the loop head it returns.
C17_CycleCompletes ==
    /\ []( (pc \in {"test", "detect", "filter", "estimate", "steer", "speed",
                    "drive", "debug"} \/ (pc \in LoopPcs /\ ~rosOk))
           => ENABLED MainThread )
    /\ [][ /\ pc' = "exit" => (pc = "ok" /\ ~rosOk)
           /\ (pc = "ok" /\ ~rosOk /\ pc' # pc) => pc' = "exit"
           /\ ~rosOk => cycles' = cycles
           /\ (pc = "detect" /\ pc' # pc) => pc' = "filter"
           /\ (pc = "filter" /\ pc' # pc) => pc' = "estimate"
           /\ (pc = "estimate" /\ pc' # pc) => pc' = "steer"
           /\ (pc = "steer" /\ pc' # pc) => pc' = "speed"
           /\ (pc = "speed" /\ pc' # pc) => pc' = "drive"
           /\ (pc = "drive" /\ pc' # pc) =>
                 (pc' = "debug" /\ nPublished' = nPublished + 1)
           /\ (pc = "debug" /\ pc' # pc) =>
                 (pc' = "ok" /\ nPublished = activeCycles)
         ]_vars

C17_Witness ==
    /\ pc = "exit"
    /\ cycles = 2 /\ activeCycles = 2 /\ nPublished = 2
    /\ nSpeedUpdates = 2

\* The configuration C18 is about: start speed within [min, max], both steps
\* positive.
C18_Configured ==
    /\ Constructed
    /\ mXycarMinSpeed <= config.speed.START_SPEED
    /\ config.speed.START_SPEED <= mXycarMaxSpeed
    /\ mAccelerationStep > 0 /\ mDecelerationStep > 0

====
